---- MODULE Spec2Model ----
(***************************************************************************)
(* A model of the tmt utility functions (src/src/python/tmt/core.py and    *)
(* its copy src/scripts/tmt/__init__.py).  Each function is a short        *)
(* sequence of host (Maya) commands; the host's scene, option variables    *)
(* and plugin table are the state, and each function is one action.        *)
(* Strings are sequences of one-character strings.                         *)
(***************************************************************************)
EXTENDS Integers, Sequences, FiniteSets, TLC

VARIABLES
    name,            \* split_nodeattr: the argument
    tokens,          \* split_nodeattr: the returned list
    splitOutcome,    \* split_nodeattr: "none" (not called), "ok" or "ValueError"
    unknownPlugins,  \* host: the unknown plugins of the scene, in the host's order
    inUse,           \* host: unknown plugins whose removal the host refuses
    removeRequests,  \* remove_unknown_plugins: remove requests of the last call
    pluginsReturned, \* remove_unknown_plugins: what the last call returned
    optionVar,       \* host: the two file-resolver option variables
    lastPrioritize,  \* prioritize_relative_filepaths: (enable, strict) of the last call
    prefsLast,       \* which of the two functions ran last
    wire,            \* host: each node's wireframe colour attributes
    wireCall,        \* get/set_wireframe_color: the last call, its result and reads
    ovr,             \* host: the node's drawing-override attributes
    ovrCall,         \* set_drawing_overrides: arguments of the call in progress
    ovrOutcome,      \* set_drawing_overrides: "none", "running", "ok" or "ValueError"
    scene,           \* host: how many objects of the scene each name matches
    mslNames,        \* get_msl_of: the argument names
    mslAdds,         \* get_msl_of: the names given to MSelectionList.add, in order
    msl,             \* get_msl_of: the returned selection list
    mslMessage,      \* get_msl_of: the message of the ValueError raised
    mslOutcome       \* get_msl_of: "none" (not called), "ok" or "ValueError"

ValueError == "ValueError"
RuntimeError == "RuntimeError"

namesVars == <<name, tokens, splitOutcome>>

prefsVars == <<unknownPlugins, inUse, removeRequests, pluginsReturned,
               optionVar, lastPrioritize, prefsLast>>

wireVars == <<wire, wireCall>>

ovrVars == <<ovr, ovrCall, ovrOutcome>>

mslVars == <<scene, mslNames, mslAdds, msl, mslMessage, mslOutcome>>

\* A Python value that is None or a list.
PyNone == [kind |-> "None", list |-> <<>>]
PyList(l) == [kind |-> "list", list |-> l]
PyRaised(e) == [kind |-> e, list |-> <<>>]

----------------------------------------------------------------------------
(* split_nodeattr                                                          *)

\* Longest name drawn as an input of split_nodeattr.
MaxLen == 5

\* Characters names are built from: two ordinary ones and the four the
\* regular expression excludes.
Alphabet == {"n", "a", ".", "[", ":", "]"}

Names == UNION {[1..n -> Alphabet] : n \in 0..MaxLen}

\* The character class of r"[^.\[:\]]+" : what a token may not contain.
Delimiters == {".", "[", ":", "]"}

\* str.find: the first index of c in s, 0 when there is none.
RECURSIVE find(_, _, _)
find(s, c, i) ==
    IF i > Len(s) THEN 0
    ELSE IF s[i] = c THEN i
    ELSE find(s, c, i + 1)

\* name.split(".", maxsplit=1): one piece when there is no ".", else the
\* text before the first "." and the whole rest.
split_maxsplit1(s) ==
    LET i == find(s, ".", 1) IN
    IF i = 0 THEN <<s>>
    ELSE <<SubSeq(s, 1, i - 1), SubSeq(s, i + 1, Len(s))>>

\* re.findall(r"[^.\[:\]]+", s): scan left to right, each match the longest
\* run of characters outside the class starting at the scan position.
RECURSIVE scan(_, _, _, _, _)
scan(s, delims, i, cur, acc) ==
    IF i > Len(s) THEN (IF cur = <<>> THEN acc ELSE Append(acc, cur))
    ELSE IF s[i] \in delims
         THEN scan(s, delims, i + 1, <<>>,
                   IF cur = <<>> THEN acc ELSE Append(acc, cur))
         ELSE scan(s, delims, i + 1, Append(cur, s[i]), acc)

findall_colon_kept(s) == scan(s, Delimiters \ {":"}, 1, <<>>, <<>>)

findall(s) == scan(s, Delimiters, 1, <<>>, <<>>)

\* The function: unpacking the split into (node, attr) raises ValueError
\* unless there are exactly two pieces.
split_nodeattr(s) ==
    LET parts == split_maxsplit1(s) IN
    IF Len(parts) # 2 THEN PyRaised(ValueError)
    ELSE PyList(<<parts[1]>> \o findall(parts[2]))

InitNames ==
    /\ name \in Names
    /\ tokens = <<>>
    /\ splitOutcome = "none"

SplitNodeattr ==
    /\ splitOutcome = "none"
    /\ LET r == split_nodeattr(name) IN
         /\ tokens' = r.list
         /\ splitOutcome' = (IF r.kind = "list" THEN "ok" ELSE r.kind)
    /\ UNCHANGED name
    /\ UNCHANGED <<prefsVars, wireVars, ovrVars, mslVars>>

QuietNames == name = <<>> /\ tokens = <<>> /\ splitOutcome = "none"

----------------------------------------------------------------------------
(* remove_unknown_plugins and prioritize_relative_filepaths                *)

Plugins == {"mtoa", "Turtle", "stereoCamera"}

\* The lists without repetition over a set.
RECURSIVE Orderings(_)
Orderings(S) ==
    IF S = {} THEN {<<>>}
    ELSE UNION {{<<x>> \o r : r \in Orderings(S \ {x})} : x \in S}

PluginLists == UNION {Orderings(S) : S \in SUBSET Plugins}

\* Largest integer passed as enable or strict (a Python bool is the int 0 or 1).
MaxOpt == 2

OptValues == 0..MaxOpt

prioritize_relative == "fileResolverResolveExactAfterRelative"
only_allow_relative == "fileResolverStrictRelativePaths"

\* cmds.unknownPlugin(query=True, list=True): the host answers None, not an
\* empty list, when the scene has no unknown plugin.
unknownPlugin_query(table) == IF table = <<>> THEN PyNone ELSE PyList(table)

\* Python's `x or []`: None and the empty list are both falsy.
or_empty(x) == IF x.kind = "None" \/ x.list = <<>> THEN PyList(<<>>) ELSE x

Remove(table, p) == SelectSeq(table, LAMBDA q : q # p)

\* The for loop: one cmds.unknownPlugin(p, remove=True) per listed plugin, in
\* order; the host raises RuntimeError for a plugin it cannot remove, which
\* ends the call.
RECURSIVE remove_loop(_, _, _, _, _)
remove_loop(list, i, table, busy, log) ==
    IF i > Len(list) THEN [table |-> table, requests |-> log, raised |-> FALSE]
    ELSE IF list[i] \in busy
         THEN [table |-> table, requests |-> Append(log, list[i]), raised |-> TRUE]
         ELSE remove_loop(list, i + 1, Remove(table, list[i]), busy, Append(log, list[i]))

remove_unknown_plugins_requery(table, busy) ==
    LET r == remove_loop(or_empty(unknownPlugin_query(table)).list, 1, table, busy, <<>>)
    IN [table |-> r.table, requests |-> r.requests,
        returned |-> IF r.raised THEN PyRaised(RuntimeError)
                     ELSE or_empty(unknownPlugin_query(r.table))]

remove_unknown_plugins(table, busy) ==
    LET unknown_plugins == or_empty(unknownPlugin_query(table))
        r == remove_loop(unknown_plugins.list, 1, table, busy, <<>>)
    IN [table |-> r.table, requests |-> r.requests,
        returned |-> IF r.raised THEN PyRaised(RuntimeError) ELSE unknown_plugins]

RemoveUnknownPlugins ==
    LET r == remove_unknown_plugins(unknownPlugins, inUse) IN
    /\ unknownPlugins' = r.table
    /\ removeRequests' = r.requests
    /\ pluginsReturned' = r.returned
    /\ prefsLast' = "remove_unknown_plugins"
    /\ UNCHANGED <<inUse, optionVar, lastPrioritize>>
    /\ UNCHANGED <<namesVars, wireVars, ovrVars, mslVars>>

\* The value of only_allow_relative: `strict` under `if enable`, else 0.
strict_always(enable, strict) == strict

strict_written(enable, strict) == IF enable # 0 THEN strict ELSE 0

\* cmds.optionVar(intValue=(name, value)) twice.
prioritize_relative_filepaths(opts, enable, strict) ==
    [opts EXCEPT ![prioritize_relative] = enable,
                 ![only_allow_relative] = strict_written(enable, strict)]

PrioritizeRelativeFilepaths ==
    \E enable \in OptValues, strict \in OptValues :
        /\ optionVar' = prioritize_relative_filepaths(optionVar, enable, strict)
        /\ lastPrioritize' = <<enable, strict>>
        /\ prefsLast' = "prioritize_relative_filepaths"
        /\ UNCHANGED <<unknownPlugins, inUse, removeRequests, pluginsReturned>>
        /\ UNCHANGED <<namesVars, wireVars, ovrVars, mslVars>>

InitPrefs ==
    /\ unknownPlugins \in PluginLists
    /\ inUse \in SUBSET Plugins
    /\ removeRequests = <<>>
    /\ pluginsReturned = PyNone
    /\ optionVar \in [{prioritize_relative, only_allow_relative} -> OptValues]
    /\ lastPrioritize = <<>>
    /\ prefsLast = "none"

QuietPrefs ==
    /\ unknownPlugins = <<>>
    /\ inUse = {}
    /\ removeRequests = <<>>
    /\ pluginsReturned = PyNone
    /\ optionVar = [o \in {prioritize_relative, only_allow_relative} |-> 0]
    /\ lastPrioritize = <<>>
    /\ prefsLast = "none"

----------------------------------------------------------------------------
(* get_wireframe_color and set_wireframe_color                             *)

Nodes == {"pCube1", "pSphere1"}

\* cmds.color(userDefined=k) takes k in 1..MaxUserColor; .objectColor holds
\* 0..MaxUserColor-1.
MaxUserColor == 8

\* Colour triples used as inputs.
WireTriples == {<<0, 0, 0>>, <<1, 0, 0>>, <<0, 1, 1>>}

\* A Python colour value: None, an int, a tuple or a list of numbers.
ColorNone == [kind |-> "None", int |-> 0, seq |-> <<>>]
ColorInt(k) == [kind |-> "int", int |-> k, seq |-> <<>>]
ColorTuple(s) == [kind |-> "tuple", int |-> 0, seq |-> s]
ColorList(s) == [kind |-> "list", int |-> 0, seq |-> s]

\* Colours passed to set_wireframe_color: None, an index of cmds.color, a
\* triple, and a sequence that is not a triple.  (The parameter's default, 0,
\* is outside the range of cmds.color and is not drawn.)
WireColorArgs ==
    {ColorNone} \cup {ColorInt(k) : k \in 1..MaxUserColor}
                \cup {ColorTuple(s) : s \in WireTriples} \cup {ColorTuple(<<1, 0>>)}

\* A new node: default wireframe colour.
DefaultWire == [useObjectColor |-> 0, objectColor |-> 0, wireColorRGB |-> <<0, 0, 0>>]

\* The host's color command on one node's attributes: with no flag it
\* restores the default colour mode, with userDefined=k it selects index
\* colour k (stored 0-based), with rgbColor=t it selects the RGB colour t.
color_default(a) == [a EXCEPT !.useObjectColor = 0]
color_userDefined(a, k) == [a EXCEPT !.useObjectColor = 1, !.objectColor = k - 1]
color_rgbColor(a, s) == [a EXCEPT !.useObjectColor = 2, !.wireColorRGB = s]

\* cmds.getAttr on the compound attribute: a list holding one triple.
getAttr_wireColorRGB(a) == <<a.wireColorRGB>>

get_wireframe_color_raw_index(a) ==
    IF a.useObjectColor = 0
    THEN [value |-> ColorInt(0), reads |-> {"useObjectColor"}]
    ELSE IF a.useObjectColor = 1
    THEN [value |-> ColorInt(a.objectColor),
          reads |-> {"useObjectColor", "objectColor"}]
    ELSE [value |-> ColorTuple(getAttr_wireColorRGB(a)[1]),
          reads |-> {"useObjectColor", "wireColorRGB"}]

\* The value returned for a node with attributes a, and the attributes read
\* with cmds.getAttr on the way.  (.useObjectColor is an enum of 0, 1, 2.)
get_wireframe_color(a) ==
    IF a.useObjectColor = 0
    THEN [value |-> ColorInt(0), reads |-> {"useObjectColor"}]
    ELSE IF a.useObjectColor = 1
    THEN [value |-> ColorInt(a.objectColor + 1),
          reads |-> {"useObjectColor", "objectColor"}]
    ELSE [value |-> ColorTuple(getAttr_wireColorRGB(a)[1]),
          reads |-> {"useObjectColor", "wireColorRGB"}]

set_wireframe_color_zero_based(a, color) ==
    IF color.kind = "None" THEN color_default(a)
    ELSE IF color.kind = "int" THEN color_userDefined(a, color.int - 1)
    ELSE IF Len(color.seq) = 3 THEN color_rgbColor(a, color.seq)
    ELSE a

\* The attributes of the node after set_wireframe_color(nodename, color).
set_wireframe_color(a, color) ==
    IF color.kind = "None" THEN color_default(a)
    ELSE IF color.kind = "int" THEN color_userDefined(a, color.int)
    ELSE IF Len(color.seq) = 3 THEN color_rgbColor(a, color.seq)
    ELSE a

GetWireframeColor ==
    \E nodename \in Nodes :
        LET r == get_wireframe_color(wire[nodename]) IN
        /\ wireCall' = [op |-> "get", node |-> nodename, color |-> ColorNone,
                        result |-> r.value, reads |-> r.reads]
        /\ UNCHANGED wire
        /\ UNCHANGED <<namesVars, prefsVars, ovrVars, mslVars>>

SetWireframeColor ==
    \E nodename \in Nodes, color \in WireColorArgs :
        /\ wire' = [wire EXCEPT ![nodename] = set_wireframe_color(@, color)]
        /\ wireCall' = [op |-> "set", node |-> nodename, color |-> color,
                        result |-> ColorNone, reads |-> {}]
        /\ UNCHANGED <<namesVars, prefsVars, ovrVars, mslVars>>

NoWireCall ==
    [op |-> "none", node |-> "", color |-> ColorNone, result |-> ColorNone, reads |-> {}]

InitWire ==
    /\ wire = [n \in Nodes |-> DefaultWire]
    /\ wireCall = NoWireCall

QuietWire == InitWire

----------------------------------------------------------------------------
(* set_drawing_overrides                                                   *)

\* An optional argument: <<>> is None, <<v>> is the value v.
Opt(S) == {<<>>} \cup {<<v>> : v \in S}

\* Index colours and alpha values used as inputs.
OverrideIndexes == {1, 5}
OverrideTriples == {<<1, 0, 0>>, <<0, 1, 1>>}
Opacities == {0, 1}

\* A new node's drawing overrides.
DefaultOverrides ==
    [overrideEnabled |-> FALSE, overrideDisplayType |-> 0,
     overrideLevelOfDetail |-> 0, overrideShading |-> TRUE,
     overrideTexturing |-> TRUE, overridePlayback |-> TRUE,
     overrideVisibility |-> TRUE, overrideRGBColors |-> FALSE,
     overrideColor |-> 0, overrideColorRGB |-> <<0, 0, 0>>, overrideColorA |-> 1]

NoArgs ==
    [enable |-> TRUE, normal |-> FALSE, template |-> FALSE, reference |-> FALSE,
     boundingbox |-> <<>>, shading |-> <<>>, texturing |-> <<>>, playback |-> <<>>,
     visible |-> <<>>, color |-> ColorNone, opacity |-> <<>>]

\* Calls that vary enable, the display type and the five optional flags.
FlagCalls ==
    [enable : BOOLEAN, normal : BOOLEAN, template : BOOLEAN, reference : BOOLEAN,
     boundingbox : Opt(BOOLEAN), shading : Opt(BOOLEAN), texturing : Opt(BOOLEAN),
     playback : Opt(BOOLEAN), visible : Opt(BOOLEAN),
     color : {ColorNone}, opacity : {<<>>}]

\* Calls that vary enable, the display type, color and opacity.
ColourCalls ==
    [enable : BOOLEAN, normal : BOOLEAN, template : BOOLEAN, reference : BOOLEAN,
     boundingbox : {<<>>}, shading : {<<>>}, texturing : {<<>>},
     playback : {<<>>}, visible : {<<>>},
     color : {ColorNone} \cup {ColorInt(k) : k \in OverrideIndexes}
                \cup {ColorTuple(s) : s \in OverrideTriples}
                \cup {ColorList(<<1, 0, 0>>)},
     opacity : Opt(Opacities)]

\* Python's sum() of the three bools.
displaytype_sum(args) ==
    (IF args.normal THEN 1 ELSE 0) + (IF args.template THEN 1 ELSE 0)
        + (IF args.reference THEN 1 ELSE 0)

displaytype_index_one_based(args) ==
    IF args.normal THEN 1 ELSE IF args.template THEN 2 ELSE 3

\* [normal, template, reference].index(True): the first position holding True.
displaytype_index(args) ==
    IF args.normal THEN 0 ELSE IF args.template THEN 1 ELSE 2

levelofdetail_inverted(boundingbox) == IF boundingbox THEN 0 ELSE 1

\* {False: 0, True: 1}[boundingbox]
levelofdetail(boundingbox) == IF boundingbox THEN 1 ELSE 0

\* cmds.setAttr under `if x is not None`.
setAttr_if_given(a, attr, x) == IF x = <<>> THEN a ELSE [a EXCEPT ![attr] = x[1]]

set_override_color_alpha_always(a, color, opacity) ==
    IF color.kind \in {"int", "tuple"}
    THEN LET b == [a EXCEPT !.overrideRGBColors = (color.kind = "tuple")] IN
         IF color.kind = "tuple"
         THEN setAttr_if_given([b EXCEPT !.overrideColorRGB = color.seq],
                               "overrideColorA", opacity)
         ELSE setAttr_if_given([b EXCEPT !.overrideColor = color.int],
                               "overrideColorA", opacity)
    ELSE a

\* The colour block: `if isinstance(color, (int, tuple))`, then the RGB
\* switch, then the triple and the alpha, or the index.
set_override_color(a, color, opacity) ==
    IF color.kind \in {"int", "tuple"}
    THEN LET color_is_rgb == color.kind = "tuple"
             b == [a EXCEPT !.overrideRGBColors = color_is_rgb] IN
         IF color_is_rgb
         THEN setAttr_if_given([b EXCEPT !.overrideColorRGB = color.seq],
                               "overrideColorA", opacity)
         ELSE [b EXCEPT !.overrideColor = color.int]
    ELSE a

\* The whole function on the node's attributes a: the attributes afterwards
\* and whether ValueError was raised.  overrideEnabled is set first, the
\* mutual-exclusion test follows it.
set_drawing_overrides(a, args) ==
    LET a1 == [a EXCEPT !.overrideEnabled = args.enable] IN
    IF displaytype_sum(args) \notin {0, 1}
    THEN [attrs |-> a1, outcome |-> ValueError]
    ELSE LET a2 == IF displaytype_sum(args) = 1
                   THEN [a1 EXCEPT !.overrideDisplayType = displaytype_index(args)]
                   ELSE a1
             a3 == IF args.boundingbox # <<>>
                   THEN [a2 EXCEPT !.overrideLevelOfDetail =
                                        levelofdetail(args.boundingbox[1])]
                   ELSE a2
             a4 == setAttr_if_given(a3, "overrideShading", args.shading)
             a5 == setAttr_if_given(a4, "overrideTexturing", args.texturing)
             a6 == setAttr_if_given(a5, "overridePlayback", args.playback)
             a7 == setAttr_if_given(a6, "overrideVisibility", args.visible)
         IN [attrs |-> set_override_color(a7, args.color, args.opacity),
             outcome |-> "ok"]

\* A caller starts a call.
Invoke(calls) ==
    /\ ovrOutcome # "running"
    /\ ovrCall' \in calls
    /\ ovrOutcome' = "running"
    /\ UNCHANGED ovr
    /\ UNCHANGED <<namesVars, prefsVars, wireVars, mslVars>>

CallWithFlags == Invoke(FlagCalls)

CallWithColour == Invoke(ColourCalls)

\* The call runs to its return or its raise.
SetDrawingOverrides ==
    /\ ovrOutcome = "running"
    /\ LET r == set_drawing_overrides(ovr, ovrCall) IN
         /\ ovr' = r.attrs
         /\ ovrOutcome' = r.outcome
    /\ ovrCall' = NoArgs
    /\ UNCHANGED <<namesVars, prefsVars, wireVars, mslVars>>

InitOverrides ==
    /\ ovr = DefaultOverrides
    /\ ovrCall = NoArgs
    /\ ovrOutcome = "none"

QuietOverrides == InitOverrides

----------------------------------------------------------------------------
(* get_msl_of                                                              *)

SceneNames == {"ctrl", "geo", "jnt"}

\* Most objects of the scene one name matches.
MaxMatches == 6

\* Most names passed in one call.
MaxArgs == 3

\* How many matches the error message lists: the 5 of dupes[:5].
DupesShown == 5

\* A piece of text: a fixed phrase, a name, a number, the path of a name's
\* i-th match, or a line break.  A string is a sequence of pieces.
Phrase(s) == [t |-> "phrase", s |-> s, n |-> 0]
NameText(s) == [t |-> "name", s |-> s, n |-> 0]
Number(n) == [t |-> "number", s |-> "", n |-> n]
Path(s, i) == [t |-> "path", s |-> s, n |-> i]
NewLine == [t |-> "newline", s |-> "", n |-> 0]

\* cmds.ls(name): the paths of the objects the name matches.
ls(sc, nm) == [i \in 1..sc[nm] |-> <<Path(nm, i)>>]

\* MSelectionList.add(name) succeeds for a name matching exactly one object
\* and raises RuntimeError otherwise.
add_succeeds(sc, nm) == sc[nm] = 1

\* Python's sep.join(list) for a list of strings.
RECURSIVE join(_, _)
join(sep, list) ==
    IF list = <<>> THEN <<>>
    ELSE IF Len(list) = 1 THEN list[1]
    ELSE list[1] \o sep \o join(sep, Tail(list))

\* Python's list[:k].
slice_to(list, k) == SubSeq(list, 1, IF Len(list) < k THEN Len(list) ELSE k)

dupes_msg_never_elided(dupes) == join(<<NewLine>>, slice_to(dupes, DupesShown))

\* dupes[:5], "..." appended when that dropped something, joined by "\n".
dupes_msg_of(dupes) ==
    LET dupes_msg == slice_to(dupes, DupesShown) IN
    join(<<NewLine>>, IF Len(dupes_msg) # Len(dupes)
                      THEN Append(dupes_msg, <<Phrase("...")>>)
                      ELSE dupes_msg)

\* The text of the ValueError raised for a name.
error_message(sc, nm) ==
    LET dupes == ls(sc, nm) IN
    <<Phrase("Non-unique or non-existent name: "), NameText(nm)>>
        \o <<NewLine, Number(Len(dupes)), Phrase(" names found:")>>
        \o <<NewLine>> \o dupes_msg_of(dupes)

\* The for loop over the names: each is added to the list; the first add the
\* host refuses ends the call with ValueError.
RECURSIVE msl_loop(_, _, _, _, _)
msl_loop(sc, names, i, list, adds) ==
    IF i > Len(names)
    THEN [outcome |-> "ok", msl |-> list, adds |-> adds, message |-> <<>>]
    ELSE IF add_succeeds(sc, names[i])
         THEN msl_loop(sc, names, i + 1, Append(list, Path(names[i], 1)),
                       Append(adds, names[i]))
         ELSE [outcome |-> ValueError, msl |-> <<>>, adds |-> Append(adds, names[i]),
               message |-> error_message(sc, names[i])]

get_msl_of(sc, names) == msl_loop(sc, names, 1, <<>>, <<>>)

GetMslOf ==
    /\ mslOutcome = "none"
    /\ LET r == get_msl_of(scene, mslNames) IN
         /\ msl' = r.msl
         /\ mslAdds' = r.adds
         /\ mslMessage' = r.message
         /\ mslOutcome' = r.outcome
    /\ UNCHANGED <<scene, mslNames>>
    /\ UNCHANGED <<namesVars, prefsVars, wireVars, ovrVars>>

InitMsl ==
    /\ scene \in [SceneNames -> 0..MaxMatches]
    /\ mslNames \in UNION {[1..n -> SceneNames] : n \in 0..MaxArgs}
    /\ mslAdds = <<>>
    /\ msl = <<>>
    /\ mslMessage = <<>>
    /\ mslOutcome = "none"

QuietMsl ==
    /\ scene = [n \in SceneNames |-> 1]
    /\ mslNames = <<>>
    /\ mslAdds = <<>>
    /\ msl = <<>>
    /\ mslMessage = <<>>
    /\ mslOutcome = "none"

----------------------------------------------------------------------------
vars == <<namesVars, prefsVars, wireVars, ovrVars, mslVars>>

NamesInit == InitNames /\ QuietPrefs /\ QuietWire /\ QuietOverrides /\ QuietMsl

NextNames == SplitNodeattr

SpecNames == NamesInit /\ [][NextNames]_vars

PrefsInit == InitPrefs /\ QuietNames /\ QuietWire /\ QuietOverrides /\ QuietMsl

NextPrefs == RemoveUnknownPlugins \/ PrioritizeRelativeFilepaths

SpecPrefs == PrefsInit /\ [][NextPrefs]_vars

WireInit == InitWire /\ QuietNames /\ QuietPrefs /\ QuietOverrides /\ QuietMsl

NextWire == GetWireframeColor \/ SetWireframeColor

SpecWire == WireInit /\ [][NextWire]_vars

OverridesInit == InitOverrides /\ QuietNames /\ QuietPrefs /\ QuietWire /\ QuietMsl

NextOverrides == CallWithFlags \/ SetDrawingOverrides

SpecOverrides == OverridesInit /\ [][NextOverrides]_vars

NextColour == CallWithColour \/ SetDrawingOverrides

SpecColour == OverridesInit /\ [][NextColour]_vars

MslInit == InitMsl /\ QuietNames /\ QuietPrefs /\ QuietWire /\ QuietOverrides

NextMsl == GetMslOf

SpecMsl == MslInit /\ [][NextMsl]_vars

----------------------------------------------------------------------------
(* Properties of split_nodeattr                                            *)

HasDot(s) == \E i \in 1..Len(s) : s[i] = "."

\* The maximal runs of non-delimiter characters of s, left to right, given
\* by where they start and end.
RunStarts(s) ==
    {i \in 1..Len(s) : s[i] \notin Delimiters /\ (i = 1 \/ s[i-1] \in Delimiters)}

RunEnd(s, i) ==
    CHOOSE j \in i..Len(s) :
        /\ \A k \in i..j : s[k] \notin Delimiters
        /\ (j = Len(s) \/ s[j+1] \in Delimiters)

RECURSIVE RunsFrom(_, _)
RunsFrom(s, starts) ==
    IF starts = {} THEN <<>>
    ELSE LET i == CHOOSE x \in starts : \A y \in starts : x <= y
         IN <<SubSeq(s, i, RunEnd(s, i))>> \o RunsFrom(s, starts \ {i})

MaximalRuns(s) == RunsFrom(s, RunStarts(s))

FirstDot(s) == CHOOSE i \in 1..Len(s) : s[i] = "." /\ \A k \in 1..(i-1) : s[k] # "."

\* C1 as stated: for every name with a ".", the result is the list of the
\* maximal non-empty runs of non-delimiter characters of the whole name, so
\* no element is empty and none contains a delimiter.
C1_AsClaimed ==
    (splitOutcome # "none" /\ HasDot(name)) =>
        /\ splitOutcome = "ok"
        /\ tokens = MaximalRuns(name)
        /\ \A k \in 1..Len(tokens) :
              tokens[k] # <<>> /\ \A i \in 1..Len(tokens[k]) : tokens[k][i] \notin Delimiters

\* C1 amended: for every name with a ".", the first element is the text
\* before the first "." kept whole (it may be empty and may contain "[",
\* ":" or "]"), and the remaining elements are the maximal non-empty runs
\* of non-delimiter characters of the text after the first "."; the result
\* is the list of maximal runs of the whole name exactly when that first
\* part is non-empty and free of delimiters.
C1_Split ==
    (splitOutcome # "none" /\ HasDot(name)) =>
        LET d == FirstDot(name)
            node == SubSeq(name, 1, d - 1)
            attr == SubSeq(name, d + 1, Len(name))
        IN /\ splitOutcome = "ok"
           /\ tokens[1] = node
           /\ Tail(tokens) = MaximalRuns(attr)
           /\ \A k \in 2..Len(tokens) :
                 tokens[k] # <<>> /\ \A i \in 1..Len(tokens[k]) : tokens[k][i] \notin Delimiters
           /\ (tokens = MaximalRuns(name)) <=>
                 (node # <<>> /\ \A i \in 1..Len(node) : node[i] \notin Delimiters)

\* A call on "n:a.a" has returned ["n:a", "a"]: the node part kept its ":".
C1_Witness ==
    /\ splitOutcome = "ok"
    /\ name = <<"n", ":", "a", ".", "a">>
    /\ tokens = << <<"n", ":", "a">>, <<"a">> >>

----------------------------------------------------------------------------
(* Properties of prioritize_relative_filepaths                             *)

\* C4: after every call prioritize_relative_filepaths(enable, strict) the
\* option fileResolverResolveExactAfterRelative equals enable and
\* fileResolverStrictRelativePaths equals (strict if enable else 0); hence
\* once the function has been called, the strict option is non-zero only if
\* the prioritise option is non-zero, and both options are a function of the
\* last call's arguments alone.
C4_Options ==
    lastPrioritize # <<>> =>
        /\ optionVar[prioritize_relative] = lastPrioritize[1]
        /\ optionVar[only_allow_relative] =
              (IF lastPrioritize[1] # 0 THEN lastPrioritize[2] ELSE 0)
        /\ (optionVar[only_allow_relative] # 0 => optionVar[prioritize_relative] # 0)

\* The call (enable=0, strict=1) has run and left both options 0.
C4_Witness ==
    /\ prefsLast = "prioritize_relative_filepaths"
    /\ lastPrioritize = <<0, 1>>
    /\ optionVar[prioritize_relative] = 0
    /\ optionVar[only_allow_relative] = 0

----------------------------------------------------------------------------
(* Properties of remove_unknown_plugins                                    *)

\* C5: a call that returns gives back exactly the list the host reported
\* when it started (the empty list when the host reported None) and has
\* issued exactly one remove request for each of its plugins, in list order,
\* and no other; when every remove succeeded the host's list is empty
\* afterwards, and a call that immediately follows such a call returns the
\* empty list, requests nothing and leaves the host's list alone.
C5_Removes ==
    [][RemoveUnknownPlugins =>
        /\ pluginsReturned'.kind # RuntimeError =>
              /\ pluginsReturned' = PyList(unknownPlugins)
              /\ removeRequests' = unknownPlugins
              /\ unknownPlugins' = <<>>
        /\ (prefsLast = "remove_unknown_plugins" /\ pluginsReturned.kind # RuntimeError) =>
              /\ pluginsReturned' = PyList(<<>>)
              /\ removeRequests' = <<>>
              /\ unknownPlugins' = unknownPlugins
       ]_vars

\* A call has returned two plugins, requested both in order, and emptied the
\* host's list.
C5_Witness ==
    /\ prefsLast = "remove_unknown_plugins"
    /\ pluginsReturned = PyList(<<"Turtle", "mtoa">>)
    /\ removeRequests = <<"Turtle", "mtoa">>
    /\ unknownPlugins = <<>>

----------------------------------------------------------------------------
(* Properties of get_wireframe_color and set_wireframe_color               *)

\* C2: get_wireframe_color branches on useObjectColor: for mode 0 it returns
\* 0 and reads no colour attribute; for mode 1 it returns objectColor + 1,
\* which is in 1..8 and never 0; for mode 2 it returns the wireColorRGB
\* triple.  The call writes no attribute of any node.
C2_Get ==
    [][wireCall'.op = "get" =>
        LET a == wire[wireCall'.node]
            r == wireCall'.result
            reads == wireCall'.reads
        IN /\ wire' = wire
           /\ a.useObjectColor = 0 =>
                 r = ColorInt(0) /\ reads \cap {"objectColor", "wireColorRGB"} = {}
           /\ a.useObjectColor = 1 =>
                 /\ r = ColorInt(a.objectColor + 1)
                 /\ r.int \in 1..MaxUserColor
           /\ a.useObjectColor = 2 => r = ColorTuple(a.wireColorRGB)
       ]_vars

\* A get on a node in index mode with objectColor 7 has returned 8.
C2_Witness ==
    /\ wireCall.op = "get"
    /\ wire[wireCall.node].useObjectColor = 1
    /\ wire[wireCall.node].objectColor = 7
    /\ wireCall.result = ColorInt(8)

\* C6: a get_wireframe_color that directly follows a set_wireframe_color
\* on the same node returns k after set(node, k) for every k in 1..8,
\* returns t after set(node, t) for every triple t, and returns 0 after
\* set(node, None), whatever colour the node had before.
C6_RoundTrip ==
    [][(wireCall.op = "set" /\ wireCall'.op = "get" /\ wireCall'.node = wireCall.node) =>
        LET c == wireCall.color
            r == wireCall'.result
        IN /\ (c.kind = "int" /\ c.int \in 1..MaxUserColor) => r = c
           /\ (c.kind = "tuple" /\ Len(c.seq) = 3) => r = c
           /\ c.kind = "None" => r = ColorInt(0)
       ]_vars

\* A node that was in RGB mode has been set to index 8 and read back as 8.
C6_Witness ==
    /\ wireCall.op = "get"
    /\ wireCall.result = ColorInt(8)
    /\ wire[wireCall.node].wireColorRGB = <<0, 1, 1>>

----------------------------------------------------------------------------
(* Properties of set_drawing_overrides                                     *)

\* The step on which a call in progress returns or raises.
CallEnds == ovrOutcome = "running" /\ ovrOutcome' # "running"

\* C3: the call raises ValueError if and only if more than one of normal,
\* template, reference is true, and then overrideDisplayType keeps its
\* value; when exactly one is true the call completes and
\* overrideDisplayType is 0 for normal, 1 for template, 2 for reference;
\* when none is true overrideDisplayType keeps its value.
C3_DisplayType ==
    [][CallEnds =>
        LET chosen == {x \in {"normal", "template", "reference"} : ovrCall[x]} IN
        /\ (ovrOutcome' = ValueError) <=> (Cardinality(chosen) > 1)
        /\ Cardinality(chosen) > 1 =>
              ovr'.overrideDisplayType = ovr.overrideDisplayType
        /\ chosen = {"normal"} => ovrOutcome' = "ok" /\ ovr'.overrideDisplayType = 0
        /\ chosen = {"template"} => ovrOutcome' = "ok" /\ ovr'.overrideDisplayType = 1
        /\ chosen = {"reference"} => ovrOutcome' = "ok" /\ ovr'.overrideDisplayType = 2
        /\ chosen = {} =>
              ovrOutcome' = "ok" /\ ovr'.overrideDisplayType = ovr.overrideDisplayType
       ]_vars

\* A call with reference alone has completed on a node it found at display
\* type 0 or 1.
C3_Witness ==
    /\ ovrOutcome = "ok"
    /\ ovr.overrideDisplayType = 2

\* C10 as stated: a call that raises ValueError leaves every override
\* attribute of the node, overrideEnabled included, as it was.
C10_NoEffectOnRaise ==
    [][(CallEnds /\ ovrOutcome' = ValueError) => ovr' = ovr]_vars

\* C7: a call that does not raise sets overrideEnabled to enable, and sets
\* overrideLevelOfDetail (0 for False, 1 for True), overrideShading,
\* overrideTexturing, overridePlayback and overrideVisibility each to its
\* parameter when that is not None and leaves it as it was when it is None.
\* By induction over the calls that return, each attribute holds the value
\* of the last such call that supplied its parameter.
C7_Flags ==
    [][(CallEnds /\ ovrOutcome' = "ok") =>
        /\ ovr'.overrideEnabled = ovrCall.enable
        /\ ovr'.overrideLevelOfDetail =
              (IF ovrCall.boundingbox = <<>> THEN ovr.overrideLevelOfDetail
               ELSE IF ovrCall.boundingbox[1] THEN 1 ELSE 0)
        /\ ovr'.overrideShading =
              (IF ovrCall.shading = <<>> THEN ovr.overrideShading ELSE ovrCall.shading[1])
        /\ ovr'.overrideTexturing =
              (IF ovrCall.texturing = <<>> THEN ovr.overrideTexturing
               ELSE ovrCall.texturing[1])
        /\ ovr'.overridePlayback =
              (IF ovrCall.playback = <<>> THEN ovr.overridePlayback
               ELSE ovrCall.playback[1])
        /\ ovr'.overrideVisibility =
              (IF ovrCall.visible = <<>> THEN ovr.overrideVisibility
               ELSE ovrCall.visible[1])
       ]_vars

\* Calls have completed that turned the bounding box on and shading,
\* texturing, playback and visibility off.
C7_Witness ==
    /\ ovrOutcome = "ok"
    /\ ovr.overrideLevelOfDetail = 1
    /\ ~ovr.overrideShading /\ ~ovr.overrideTexturing
    /\ ~ovr.overridePlayback /\ ~ovr.overrideVisibility

\* C8: in a call that gets past the mutual-exclusion test, an int color
\* sets overrideRGBColors to false and overrideColor to color and leaves
\* overrideColorRGB and overrideColorA alone; a tuple color sets
\* overrideRGBColors to true and overrideColorRGB to the tuple, leaves
\* overrideColor alone, and sets overrideColorA to opacity exactly when
\* opacity is not None; a None color leaves all four alone whatever
\* opacity is.
C8_Colour ==
    [][(CallEnds /\ ovrOutcome' = "ok") =>
        LET c == ovrCall.color
            o == ovrCall.opacity
        IN /\ c.kind = "int" =>
                 /\ ovr'.overrideRGBColors = FALSE
                 /\ ovr'.overrideColor = c.int
                 /\ ovr'.overrideColorRGB = ovr.overrideColorRGB
                 /\ ovr'.overrideColorA = ovr.overrideColorA
           /\ c.kind = "tuple" =>
                 /\ ovr'.overrideRGBColors = TRUE
                 /\ ovr'.overrideColorRGB = c.seq
                 /\ ovr'.overrideColor = ovr.overrideColor
                 /\ ovr'.overrideColorA =
                       (IF o = <<>> THEN ovr.overrideColorA ELSE o[1])
           /\ c.kind = "None" =>
                 /\ ovr'.overrideRGBColors = ovr.overrideRGBColors
                 /\ ovr'.overrideColor = ovr.overrideColor
                 /\ ovr'.overrideColorRGB = ovr.overrideColorRGB
                 /\ ovr'.overrideColorA = ovr.overrideColorA
       ]_vars

\* After a tuple call with an opacity, an int call has completed: index
\* colour 5 is set, the RGB switch is off, the triple and alpha remain.
C8_Witness ==
    /\ ovrOutcome = "ok"
    /\ ovr.overrideRGBColors = FALSE
    /\ ovr.overrideColor = 5
    /\ ovr.overrideColorRGB = <<0, 1, 1>>
    /\ ovr.overrideColorA = 0

----------------------------------------------------------------------------
(* Properties of get_msl_of                                                *)

\* The names up to and including the first one the host refuses, or all.
UpToFirstRefused(sc, names) ==
    LET bad == {i \in 1..Len(names) : sc[names[i]] # 1} IN
    IF bad = {} THEN names
    ELSE SubSeq(names, 1, CHOOSE i \in bad : \A j \in bad : i <= j)

PathsListed(text) == SelectSeq(text, LAMBDA x : x.t = "path")

\* C9: the names are added in argument order; when every add succeeds the
\* call returns a list with one entry per name in that order; at the first
\* name the host refuses the call raises ValueError, no later name is
\* added, and the message names that name, gives the number n of names ls
\* found, and lists the first min(n, 5) of them, followed by a "..." line
\* if and only if n > 5.
C9_Msl ==
    mslOutcome # "none" =>
        LET tried == UpToFirstRefused(scene, mslNames)
            refused == tried[Len(tried)]
            n == scene[refused]
            shown == IF n < 5 THEN n ELSE 5
            text == mslMessage
        IN /\ mslAdds = tried
           /\ (mslOutcome = "ok") <=> (\A i \in 1..Len(mslNames) : scene[mslNames[i]] = 1)
           /\ mslOutcome = "ok" =>
                 /\ Len(msl) = Len(mslNames)
                 /\ \A i \in 1..Len(msl) : msl[i] = Path(mslNames[i], 1)
           /\ mslOutcome = ValueError =>
                 /\ text[2] = NameText(refused)
                 /\ text[4] = Number(n)
                 /\ PathsListed(text) = [i \in 1..shown |-> Path(refused, i)]
                 /\ (n > 5) <=> (text[Len(text)] = Phrase("..."))
                 /\ Len(SelectSeq(text, LAMBDA x : x = Phrase("..."))) =
                       (IF n > 5 THEN 1 ELSE 0)

\* A call has raised at its second name, which matches six objects.
C9_Witness ==
    /\ mslOutcome = ValueError
    /\ mslNames = <<"geo", "ctrl", "jnt">>
    /\ scene["geo"] = 1 /\ scene["ctrl"] = 6
    /\ mslAdds = <<"geo", "ctrl">>

====
